---- MODULE Spec2Model ----
(***************************************************************************)
(* OCPP gateway (aws-ocpp-gateway/src/lambdas): the SQS batch entry point, *)
(* the message processor with its handler registry, and the two remote     *)
(* command lambdas, with the IoT data client as the only collaborator      *)
(* (the "<cp>/out" device channel and the "$aws/things/<cp>/shadow/update" *)
(* state store).                                                           *)
(***************************************************************************)
EXTENDS Naturals, Sequences, FiniteSets, TLC

VARIABLES
    shadow,     \* device -> reported state document held by the state store
    commands,   \* remote commands delivered to a device channel, awaiting a reply
    ledger,     \* pending-command entries <<device, correlation id>> on durable storage
    phase,      \* messages lambda: "idle" | "running" | "returned" | "aborted"
    batchN,     \* number of Records of the event being processed
    idx,        \* number of Records of that event handed to handle_record so far
    failures,   \* how many of those handle_record calls logged an exception
    ops,        \* invocations admitted so far (bounded by MaxOps)
    result,     \* what lambda_handler returned for the event (NoResult: not yet)
    recent,     \* device -> the latest Started / Ended TransactionEvent whose
                \* state update the store accepted
    last        \* the most recent handle_record / command lambda call: its input
                \* (frame or request body) and what it did

vars == <<shadow, commands, ledger, phase, batchN, idx, failures, ops, result,
          recent, last>>

----------------------------------------------------------------------------
(* Bounds *)
MaxOps == 2
MaxBatch == 2

(* Program constant: heartbeat interval of the boot reply *)
Interval == 10

Devices == {"CP1", "CP2"}
MsgIds == {"m1", "m2"}
TxIds == {"t1"}
TransactionIds == {"t1", "t2"}
\* values of int(uuid.uuid4().int & 0xFFFFFFFF)
GenIds == {"g1", "g2"}

Absent == "Absent"   \* the key is not in the dict / document
Null == "Null"       \* Python None, JSON null

----------------------------------------------------------------------------
(* Payloads: a JSON value, a dict (shape "dict") with the keys the handlers *)
(* read, or a non-dict JSON value (shape "list").  transactionInfo / evse   *)
(* are Absent, Null (present, not an object) or the id the object carries.  *)

EmptyDict ==
    [shape |-> "dict", status |-> Absent, eventType |-> Absent,
     transactionInfo |-> Absent, evse |-> Absent, transactionId |-> Absent,
     reason |-> Absent, currentTime |-> Absent, interval |-> 0]

ListPayload == [EmptyDict EXCEPT !.shape = "list"]

BootPayloads == {[EmptyDict EXCEPT !.reason = "PowerUp"]}

TxEvent(et, ti, ev) ==
    [EmptyDict EXCEPT !.eventType = et, !.transactionInfo = ti, !.evse = ev]

TransactionPayloads ==
    {TxEvent(et, "t1", "e1") : et \in {"Started", "Updated", "Ended", "Other", Absent}}
        \cup {TxEvent("Updated", Null, "e1"), TxEvent("Started", "t1", Null)}

(* The TransactionEvent payloads of a device's transaction history: two     *)
(* transactions, every eventType, and a Started event without               *)
(* transactionInfo                                                          *)
TransactionHistoryPayloads ==
    {TxEvent(et, ti, "e1") : et \in {"Started", "Updated", "Ended"}, ti \in TransactionIds}
        \cup {TxEvent("Other", "t2", "e1"), TxEvent(Absent, "t2", "e1"),
              TxEvent("Started", Absent, "e1")}

StartPayloads == {EmptyDict, ListPayload}
StopPayloads == {[EmptyDict EXCEPT !.transactionId = "t1"], ListPayload}

ResultPayloads ==
    {[EmptyDict EXCEPT !.status = s] : s \in {"Accepted", "Rejected", Absent}}

(* Frames: ocpp.messages.Call / CallResult / CallError.  A CallResult and a *)
(* CallError have no action (NoAction: the attribute is missing or None);   *)
(* a CallError has no payload attribute (hasPayload = FALSE).               *)
NoAction == "NoAction"

Call(id, action, payload) ==
    [type |-> "Call", id |-> id, action |-> action, payload |-> payload,
     hasPayload |-> TRUE]
CallResult(id, payload) ==
    [type |-> "CallResult", id |-> id, action |-> NoAction, payload |-> payload,
     hasPayload |-> TRUE]
CallError(id) ==
    [type |-> "CallError", id |-> id, action |-> NoAction, payload |-> EmptyDict,
     hasPayload |-> FALSE]
NoFrame ==
    [type |-> "None", id |-> "None", action |-> NoAction, payload |-> EmptyDict,
     hasPayload |-> FALSE]

(* Message.create_call_result of the codec: same unique_id, given payload *)
create_call_result(message, payload) == CallResult(message.id, payload)

----------------------------------------------------------------------------
(* State-store documents, flattened: one field per leaf the handlers write. *)
(* In an update, Absent leaves the stored leaf alone and Null clears it.    *)

NoDoc ==
    [reason |-> Absent,
     lcrMessageId |-> Absent, lcrStatus |-> Absent,
     lteEventType |-> Absent, lteTransactionId |-> Absent,
     atTransactionId |-> Absent, atEvseId |-> Absent,
     lctTransactionId |-> Absent,
     ctTransactionId |-> Absent, ctStatus |-> Absent]

DocFields == DOMAIN NoDoc

MergeLeaf(old, upd) ==
    IF upd = Absent THEN old ELSE IF upd = Null THEN Absent ELSE upd

ShadowMerge(old, doc) == [f \in DocFields |-> MergeLeaf(old[f], doc[f])]

(* dict.get(key): None for a missing key *)
Get(v) == IF v = Absent THEN Null ELSE v

(* Mutant: every publish goes to the topics of one fixed device *)
Publish_OneDevice(topic, cp, frame, doc, ok) ==
    [topic |-> topic, cp |-> "CP1", frame |-> frame, doc |-> doc, ok |-> ok]

(* One iot.publish call: the topic ("out" = "<cp>/out", "shadow" =          *)
(* "$aws/things/<cp>/shadow/update"), what was sent, and whether it raised. *)
Publish(topic, cp, frame, doc, ok) ==
    [topic |-> topic, cp |-> cp, frame |-> frame, doc |-> doc, ok |-> ok]

(* A handler's outcome: the response it returned (NoFrame = None), the      *)
(* publish calls it made, and whether it raised.                            *)
Result(reply, pubs, raised) == [reply |-> reply, pubs |-> pubs, raised |-> raised]

----------------------------------------------------------------------------
(* Handlers (ocpp_message_processor/handlers).  ok: whether the handler's   *)
(* own iot.publish call succeeds; gen: the transaction id it generates.     *)

BootNotificationHandler_handle(cp, message, ok, gen) ==
    LET doc == [NoDoc EXCEPT !.reason = message.payload.reason]
        pub == Publish("shadow", cp, NoFrame, doc, ok)
    IN  IF ~ok
        THEN Result(NoFrame, <<pub>>, TRUE)
        ELSE Result(create_call_result(message,
                        [EmptyDict EXCEPT !.currentTime = "now",
                                          !.interval = Interval,
                                          !.status = "Accepted"]),
                    <<pub>>, FALSE)

HeartbeatHandler_handle(cp, message, ok, gen) ==
    Result(create_call_result(message, [EmptyDict EXCEPT !.currentTime = "now"]),
           <<>>, FALSE)

StatusNotificationHandler_handle(cp, message, ok, gen) ==
    Result(create_call_result(message, EmptyDict), <<>>, FALSE)

(* update_transaction_shadow: the document it builds, or the exception of a *)
(* .get on a value that is not a dict, raised before the guarded publish    *)
TransactionShadowRaises(data) ==
    \/ data.shape # "dict"
    \/ data.transactionInfo = Null
    \/ data.eventType = "Started" /\ data.evse = Null

(* Mutant: an Ended event leaves the active transaction in place *)
TransactionShadowDoc_KeepActive(data) ==
    LET transaction_id == Get(data.transactionInfo)
        summary == [NoDoc EXCEPT !.lteEventType = Get(data.eventType),
                                 !.lteTransactionId = transaction_id]
    IN  IF Get(data.eventType) = "Started"
        THEN [summary EXCEPT !.atTransactionId = transaction_id,
                             !.atEvseId = Get(data.evse)]
        ELSE IF Get(data.eventType) = "Ended"
        THEN [summary EXCEPT !.lctTransactionId = transaction_id]
        ELSE summary

(* Mutant: an Updated event sets the active transaction as well *)
TransactionShadowDoc_UpdatedActivates(data) ==
    LET transaction_id == Get(data.transactionInfo)
        summary == [NoDoc EXCEPT !.lteEventType = Get(data.eventType),
                                 !.lteTransactionId = transaction_id]
    IN  IF Get(data.eventType) \in {"Started", "Updated"}
        THEN [summary EXCEPT !.atTransactionId = transaction_id,
                             !.atEvseId = Get(data.evse)]
        ELSE IF Get(data.eventType) = "Ended"
        THEN [summary EXCEPT !.atTransactionId = Null,
                             !.atEvseId = Null,
                             !.lctTransactionId = transaction_id]
        ELSE summary

TransactionShadowDoc(data) ==
    LET event_type == Get(data.eventType)
        transaction_id == Get(data.transactionInfo)
        summary == [NoDoc EXCEPT !.lteEventType = event_type,
                                 !.lteTransactionId = transaction_id]
    IN  IF event_type = "Started"
        THEN [summary EXCEPT !.atTransactionId = transaction_id,
                             !.atEvseId = Get(data.evse)]
        ELSE IF event_type = "Ended"
        THEN [summary EXCEPT !.atTransactionId = Null,
                             !.atEvseId = Null,
                             !.lctTransactionId = transaction_id]
        ELSE summary

TransactionEventHandler_handle(cp, message, ok, gen) ==
    IF TransactionShadowRaises(message.payload)
    THEN Result(NoFrame, <<>>, TRUE)
    ELSE Result(create_call_result(message, EmptyDict),
                <<Publish("shadow", cp, NoFrame,
                          TransactionShadowDoc(message.payload), ok)>>,
                FALSE)

RequestStartTransactionHandler_handle(cp, message, ok, gen) ==
    IF message.payload.shape # "dict"
    THEN Result(NoFrame, <<>>, TRUE)
    ELSE Result(create_call_result(message, [EmptyDict EXCEPT !.status = "Accepted"]),
                <<Publish("shadow", cp, NoFrame,
                          [NoDoc EXCEPT !.ctTransactionId = gen,
                                        !.ctStatus = "Started"], ok)>>,
                FALSE)

RequestStopTransactionHandler_handle(cp, message, ok, gen) ==
    IF message.payload.shape # "dict"
    THEN Result(NoFrame, <<>>, TRUE)
    ELSE Result(create_call_result(message, [EmptyDict EXCEPT !.status = "Accepted"]),
                <<Publish("shadow", cp, NoFrame,
                          [NoDoc EXCEPT !.ctTransactionId = Get(message.payload.transactionId),
                                        !.ctStatus = "Stopped"], ok)>>,
                FALSE)

(* CallResultHandler.handle: message.payload of a CallError raises; a       *)
(* payload with a status is written to lastCallResult; always returns None  *)
CallResultHandler_handle(cp, message, ok, gen) ==
    IF ~message.hasPayload
    THEN Result(NoFrame, <<>>, TRUE)
    ELSE IF message.payload.shape = "dict" /\ message.payload.status # Absent
    THEN Result(NoFrame,
                <<Publish("shadow", cp, NoFrame,
                          [NoDoc EXCEPT !.lcrMessageId = message.id,
                                        !.lcrStatus = message.payload.status], ok)>>,
                FALSE)
    ELSE Result(NoFrame, <<>>, FALSE)

(* Mutant: the default handler answers nothing *)
UnsupportedMessageHandler_handle_None(cp, message, ok, gen) ==
    Result(NoFrame, <<>>, FALSE)

UnsupportedMessageHandler_handle(cp, message, ok, gen) ==
    Result(message, <<>>, FALSE)

----------------------------------------------------------------------------
(* MessageProcessor *)

(* keys of self._handlers *)
Registered ==
    {"BootNotification", "Heartbeat", "StatusNotification", "TransactionEvent",
     "RequestStartTransaction", "RequestStopTransaction"}

(* self._handlers.get(message.action, self._default_handler).handle(...) *)
Dispatch(cp, message, ok, gen) ==
    CASE message.action = "BootNotification" ->
            BootNotificationHandler_handle(cp, message, ok, gen)
      [] message.action = "Heartbeat" ->
            HeartbeatHandler_handle(cp, message, ok, gen)
      [] message.action = "StatusNotification" ->
            StatusNotificationHandler_handle(cp, message, ok, gen)
      [] message.action = "TransactionEvent" ->
            TransactionEventHandler_handle(cp, message, ok, gen)
      [] message.action = "RequestStartTransaction" ->
            RequestStartTransactionHandler_handle(cp, message, ok, gen)
      [] message.action = "RequestStopTransaction" ->
            RequestStopTransactionHandler_handle(cp, message, ok, gen)
      [] OTHER ->
            UnsupportedMessageHandler_handle(cp, message, ok, gen)

(* Mutant: the first branch recognises CallResult frames *)
IsCallResultClass_ByType(message) == message.type = "CallResult"

(* `message is CallResult`: an instance is never the class object *)
IsCallResultClass(message) == FALSE

(* Mutant: the no-action test never succeeds *)
HasNoAction_Never(message) == FALSE

(* `not hasattr(message, 'action') or message.action is None` *)
HasNoAction(message) == message.action = NoAction

(* Mutant: the reply is published twice *)
send_message_to_charge_point_Twice(cp, message, ok) ==
    IF message = NoFrame THEN <<>>
    ELSE <<Publish("out", cp, message, NoDoc, ok), Publish("out", cp, message, NoDoc, ok)>>

(* send_message_to_charge_point: one publish to "<cp>/out" *)
send_message_to_charge_point(cp, message, ok) ==
    IF message = NoFrame THEN <<>> ELSE <<Publish("out", cp, message, NoDoc, ok)>>

(* Mutant: the reply is sent before the handler's publish calls *)
process_message_ReplyFirst(cp, message, oks, gen) ==
    IF IsCallResultClass(message)
    THEN LET r == CallResultHandler_handle(cp, message, oks[1], gen)
         IN  [pubs |-> r.pubs, raised |-> IF r.raised THEN "handler" ELSE "none",
              route |-> "identity"]
    ELSE IF HasNoAction(message)
    THEN LET r == CallResultHandler_handle(cp, message, oks[1], gen)
         IN  [pubs |-> r.pubs, raised |-> IF r.raised THEN "handler" ELSE "none",
              route |-> "call_result"]
    ELSE LET r == Dispatch(cp, message, oks[1], gen)
             sent == IF r.raised \/ r.reply = NoFrame THEN <<>>
                     ELSE send_message_to_charge_point(cp, r.reply,
                                                       oks[Len(r.pubs) + 1])
         IN  [pubs |-> sent \o r.pubs,
              raised |-> IF r.raised THEN "handler"
                         ELSE IF sent # <<>> /\ ~sent[1].ok THEN "publish"
                         ELSE "none",
              route |-> IF message.action \in Registered THEN message.action
                        ELSE "default"]

(* process_message: the publish calls made, in order; where an exception,   *)
(* if any, came from ("none" | "handler" | "publish"); and the branch       *)
(* taken: "identity" (`message is CallResult`), "call_result" (no action),  *)
(* the action of the registry handler, or "default".  oks[k]: whether the   *)
(* k-th publish call of this dispatch succeeds.                             *)
process_message(cp, message, oks, gen) ==
    IF IsCallResultClass(message)
    THEN LET r == CallResultHandler_handle(cp, message, oks[1], gen)
         IN  [pubs |-> r.pubs, raised |-> IF r.raised THEN "handler" ELSE "none",
              route |-> "identity"]
    ELSE IF HasNoAction(message)
    THEN LET r == CallResultHandler_handle(cp, message, oks[1], gen)
         IN  [pubs |-> r.pubs, raised |-> IF r.raised THEN "handler" ELSE "none",
              route |-> "call_result"]
    ELSE LET r == Dispatch(cp, message, oks[1], gen)
             sent == IF r.raised \/ r.reply = NoFrame THEN <<>>
                     ELSE send_message_to_charge_point(cp, r.reply,
                                                       oks[Len(r.pubs) + 1])
         IN  [pubs |-> r.pubs \o sent,
              raised |-> IF r.raised THEN "handler"
                         ELSE IF sent # <<>> /\ ~sent[1].ok THEN "publish"
                         ELSE "none",
              route |-> IF message.action \in Registered THEN message.action
                        ELSE "default"]

----------------------------------------------------------------------------
(* messages_lambda_handler *)

(* An SQS record: body.chargePointId (Absent: the key is missing), whether  *)
(* body.message is there, and the wire array [typeId, id, action, payload]  *)
(* ([typeId, id, payload] for typeId 3, [typeId, id, ...] for typeId 4).    *)
Raw(typeId, id, action, payload) ==
    [typeId |-> typeId, id |-> id, action |-> action, payload |-> payload]

RawCalls ==
    {Raw(2, id, a[1], a[2]) : id \in MsgIds, a \in
        ({"BootNotification"} \X BootPayloads)
        \cup ({"Heartbeat", "StatusNotification", "FooBar"} \X {EmptyDict})
        \cup ({"TransactionEvent"} \X TransactionPayloads)
        \cup ({"RequestStartTransaction"} \X StartPayloads)
        \cup ({"RequestStopTransaction"} \X StopPayloads)}

RawResults == {Raw(3, id, NoAction, p) : id \in MsgIds, p \in ResultPayloads}
RawErrors == {Raw(4, id, NoAction, EmptyDict) : id \in MsgIds}
RawUnknown == {Raw(9, "m1", NoAction, EmptyDict)}

Records ==
    {[cp |-> cp, hasMessage |-> TRUE, message |-> m] :
        cp \in Devices, m \in RawCalls \cup RawResults \cup RawErrors \cup RawUnknown}
    \cup {[cp |-> Absent, hasMessage |-> TRUE, message |-> Raw(2, "m1", "Heartbeat", EmptyDict)],
          [cp |-> "CP1", hasMessage |-> FALSE, message |-> Raw(9, "m1", NoAction, EmptyDict)]}

(* ocpp.messages.unpack: the class is chosen by the message type id alone;  *)
(* NoFrame stands for the exception of an unknown type id                   *)
unpack(raw) ==
    CASE raw.typeId = 2 -> Call(raw.id, raw.action, raw.payload)
      [] raw.typeId = 3 -> CallResult(raw.id, raw.payload)
      [] raw.typeId = 4 -> CallError(raw.id)
      [] OTHER -> NoFrame

(* Mutant: handle_record re-raises what it logged *)
Reraises_Always(raised) == TRUE

(* Whether the `except Exception` of handle_record lets an exception out *)
Reraises(raised) == FALSE

(* Mutant: a record without chargePointId is processed all the same *)
handle_record_AnyDevice(record, oks, gen) ==
    LET message == unpack(record.message)
        decoded == record.hasMessage /\ message # NoFrame
        r == IF decoded THEN process_message(record.cp, message, oks, gen)
             ELSE [pubs |-> <<>>, raised |-> "decode", route |-> "none"]
    IN  [cp |-> record.cp,
         frame |-> IF decoded THEN message ELSE NoFrame,
         pubs |-> r.pubs,
         raised |-> r.raised,
         route |-> r.route,
         propagated |-> r.raised # "none" /\ Reraises(r.raised)]

TransactionRecords ==
    {[cp |-> cp, hasMessage |-> TRUE,
      message |-> Raw(2, "m1", "TransactionEvent", p)] :
        cp \in Devices, p \in TransactionHistoryPayloads}

(* handle_record: decode, process, and log whatever was raised *)
handle_record(record, oks, gen) ==
    LET message == unpack(record.message)
        decoded == record.cp # Absent /\ record.hasMessage /\ message # NoFrame
        r == IF decoded THEN process_message(record.cp, message, oks, gen)
             ELSE [pubs |-> <<>>, raised |-> "decode", route |-> "none"]
    IN  [cp |-> record.cp,
         frame |-> IF decoded THEN message ELSE NoFrame,
         pubs |-> r.pubs,
         raised |-> r.raised,
         route |-> r.route,
         propagated |-> r.raised # "none" /\ Reraises(r.raised)]

----------------------------------------------------------------------------
(* remote_start_transaction / remote_stop_transaction lambdas.  body: the   *)
(* request's chargePointId / transactionId (Absent: missing); id: the       *)
(* uuid4 message id; ok: whether iot_client.publish succeeds.  recorded:    *)
(* what the lambda writes to durable storage besides the publish.           *)

Response(status, messageId, cp, pubs) ==
    [status |-> status, messageId |-> messageId, cp |-> cp, pubs |-> pubs,
     recorded |-> {}]

(* Mutant: the response names another message id than the published frame *)
remote_start_transaction_OtherId(body, id, ok) ==
    IF body.chargePointId = Absent
    THEN Response(400, Absent, Absent, <<>>)
    ELSE LET message == Call(id, "RequestStartTransaction", EmptyDict)
             pub == Publish("out", body.chargePointId, message, NoDoc, ok)
         IN  IF ok THEN Response(200, CHOOSE other \in MsgIds : other # id,
                                 body.chargePointId, <<pub>>)
             ELSE Response(500, Absent, body.chargePointId, <<pub>>)

remote_start_transaction(body, id, ok) ==
    IF body.chargePointId = Absent
    THEN Response(400, Absent, Absent, <<>>)
    ELSE LET message == Call(id, "RequestStartTransaction", EmptyDict)
             pub == Publish("out", body.chargePointId, message, NoDoc, ok)
         IN  IF ok THEN Response(200, id, body.chargePointId, <<pub>>)
             ELSE Response(500, Absent, body.chargePointId, <<pub>>)

(* Mutant: a stop request is not checked for its transactionId *)
remote_stop_transaction_Unchecked(body, id, ok) ==
    IF body.chargePointId = Absent
    THEN Response(400, Absent, Absent, <<>>)
    ELSE LET message == Call(id, "RequestStopTransaction",
                             [EmptyDict EXCEPT !.transactionId = body.transactionId])
             pub == Publish("out", body.chargePointId, message, NoDoc, ok)
         IN  IF ok THEN Response(200, id, body.chargePointId, <<pub>>)
             ELSE Response(500, Absent, body.chargePointId, <<pub>>)

remote_stop_transaction(body, id, ok) ==
    IF body.chargePointId = Absent \/ body.transactionId = Absent
    THEN Response(400, Absent, Absent, <<>>)
    ELSE LET message == Call(id, "RequestStopTransaction",
                             [EmptyDict EXCEPT !.transactionId = body.transactionId])
             pub == Publish("out", body.chargePointId, message, NoDoc, ok)
         IN  IF ok THEN Response(200, id, body.chargePointId, <<pub>>)
             ELSE Response(500, Absent, body.chargePointId, <<pub>>)

Bodies ==
    [chargePointId : Devices \cup {Absent}, transactionId : TxIds \cup {Absent}]

----------------------------------------------------------------------------
(* The IoT data plane: what the successful publish calls leave behind *)

RECURSIVE ApplyShadow(_, _)
ApplyShadow(sh, pubs) ==
    IF pubs = <<>> THEN sh
    ELSE LET p == Head(pubs)
             next == IF p.topic = "shadow" /\ p.ok
                     THEN [sh EXCEPT ![p.cp] = ShadowMerge(sh[p.cp], p.doc)]
                     ELSE sh
         IN  ApplyShadow(next, Tail(pubs))

Delivered(pubs) ==
    {[cp |-> pubs[i].cp, id |-> pubs[i].frame.id, action |-> pubs[i].frame.action] :
        i \in {j \in DOMAIN pubs : pubs[j].topic = "out" /\ pubs[j].ok}}

NoBody == [chargePointId |-> Absent, transactionId |-> Absent]

NoLast ==
    [op |-> "none", cp |-> Absent, frame |-> NoFrame, pubs |-> <<>>,
     raised |-> "none", route |-> "none", body |-> NoBody, status |-> 0,
     messageId |-> Absent]

(* lambda_handler has not returned *)
NoResult == [statusCode |-> 0, batchItemFailures |-> 0]

(* Mutant: the failed records are reported back to the queue *)
lambda_handler_return_Reporting(failed) ==
    [statusCode |-> IF failed > 0 THEN 500 ELSE 200, batchItemFailures |-> failed]

(* The return value of lambda_handler after the loop: statusCode 200 and no *)
(* batchItemFailures key, whatever handle_record logged                     *)
lambda_handler_return(failed) == [statusCode |-> 200, batchItemFailures |-> 0]

NoEvent == [eventType |-> Absent, transactionId |-> Absent]

(* The latest Started / Ended event per device after one handle_record call *)
Recent(rc, r) ==
    IF /\ r.frame.type = "Call" /\ r.frame.action = "TransactionEvent"
       /\ r.frame.payload.eventType \in {"Started", "Ended"}
       /\ \E i \in DOMAIN r.pubs : r.pubs[i].topic = "shadow" /\ r.pubs[i].ok
    THEN [rc EXCEPT ![r.cp] = [eventType |-> r.frame.payload.eventType,
                               transactionId |-> r.frame.payload.transactionInfo]]
    ELSE rc

Init ==
    /\ shadow = [cp \in Devices |-> NoDoc]
    /\ commands = {}
    /\ ledger = {}
    /\ phase = "idle"
    /\ batchN = 0
    /\ idx = 0
    /\ failures = 0
    /\ ops = 0
    /\ result = NoResult
    /\ recent = [cp \in Devices |-> NoEvent]
    /\ last = NoLast

(* Every outcome of one handle_record call: over the records, over which   *)
(* of the (at most two) publish calls of a dispatch succeed, and over the   *)
(* transaction id generated                                                  *)
Outcomes ==
    {handle_record(record, oks, gen) :
        record \in Records, oks \in [1..2 -> BOOLEAN], gen \in GenIds}

(* lambda_handler is entered with an event of n Records; with none, the    *)
(* loop is skipped and it returns statusCode 200 at once                    *)
StartBatch ==
    /\ phase \in {"idle", "returned"}
    /\ \E n \in 0..MaxBatch :
        /\ ops + n <= MaxOps
        /\ batchN' = n
        /\ ops' = ops + n
        /\ phase' = IF n = 0 THEN "returned" ELSE "running"
        /\ result' = IF n = 0 THEN lambda_handler_return(0) ELSE NoResult
    /\ idx' = 0
    /\ failures' = 0
    /\ UNCHANGED <<shadow, commands, ledger, recent, last>>

(* one iteration of the loop over event["Records"] with the handle_record   *)
(* outcome r; after the last one lambda_handler returns                     *)
Iterate(r) ==
    /\ shadow' = ApplyShadow(shadow, r.pubs)
    /\ recent' = Recent(recent, r)
    /\ idx' = idx + 1
    /\ failures' = IF r.raised = "none" THEN failures ELSE failures + 1
    /\ phase' = IF r.propagated THEN "aborted"
                ELSE IF idx + 1 = batchN THEN "returned" ELSE "running"
    /\ result' = IF ~r.propagated /\ idx + 1 = batchN
                 THEN lambda_handler_return(failures')
                 ELSE NoResult
    /\ last' = [op |-> "record", cp |-> r.cp, frame |-> r.frame,
                pubs |-> r.pubs, raised |-> r.raised, route |-> r.route,
                body |-> NoBody, status |-> 0, messageId |-> Absent]
    /\ UNCHANGED <<commands, ledger, batchN, ops>>

(* the loop over the Records of an event of any content *)
HandleRecord ==
    /\ phase = "running"
    /\ idx < batchN
    /\ \E r \in Outcomes : Iterate(r)

(* Every outcome of handle_record for a TransactionEvent of a device's      *)
(* transaction history                                                      *)
TransactionOutcomes ==
    {handle_record(record, oks, "g1") :
        record \in TransactionRecords, oks \in [1..2 -> BOOLEAN]}

HandleTransactionEvent ==
    /\ phase = "running"
    /\ idx < batchN
    /\ \E r \in TransactionOutcomes : Iterate(r)

Issue(op, body, r) ==
    /\ ops' = ops + 1
    /\ commands' = commands \cup Delivered(r.pubs)
    /\ ledger' = ledger \cup r.recorded
    /\ last' = [op |-> op, cp |-> r.cp, frame |-> NoFrame, pubs |-> r.pubs,
                raised |-> "none", route |-> "none", body |-> body,
                status |-> r.status,
                messageId |-> r.messageId]
    /\ UNCHANGED <<shadow, phase, batchN, idx, failures, result, recent>>

FreshIds == MsgIds \ {c.id : c \in commands}

RemoteStart ==
    /\ ops < MaxOps
    /\ \E body \in Bodies, id \in FreshIds, ok \in BOOLEAN :
        Issue("start", body, remote_start_transaction(body, id, ok))

RemoteStop ==
    /\ ops < MaxOps
    /\ \E body \in Bodies, id \in FreshIds, ok \in BOOLEAN :
        Issue("stop", body, remote_stop_transaction(body, id, ok))

Next == StartBatch \/ HandleRecord \/ RemoteStart \/ RemoteStop

Spec == Init /\ [][Next]_vars

(* Events of TransactionEvent records only, one record at a time *)
NextTransactions == StartBatch \/ HandleTransactionEvent

SpecTransactions == Init /\ [][NextTransactions]_vars

----------------------------------------------------------------------------
(* Properties *)

IsDispatch(type) == last.op = "record" /\ last.frame.type = type

OutPubs == {i \in DOMAIN last.pubs : last.pubs[i].topic = "out"}
ShadowPubs == {i \in DOMAIN last.pubs : last.pubs[i].topic = "shadow"}
ShadowWrites(l) == {i \in DOMAIN l.pubs : l.pubs[i].topic = "shadow" /\ l.pubs[i].ok}

IssuedTo(cp, id) == \E c \in commands : c.cp = cp /\ c.id = id

(* C1: for every inbound Call whose action is not in the handler registry,  *)
(* the dispatch issues a publish of a reply to the sending device's channel *)
(* (the Unsupported handler never returns None).                            *)
C1_UnregisteredCallIsAnswered ==
    (IsDispatch("Call") /\ last.frame.action \notin Registered)
        => \E i \in OutPubs : last.pubs[i].cp = last.cp

C1_Witness ==
    /\ IsDispatch("Call")
    /\ last.frame.action = "FooBar"
    /\ \E i \in OutPubs : last.pubs[i].cp = last.cp /\ last.pubs[i].ok

(* C2: the frame sent back for a Call with an unregistered action is a      *)
(* CallError (not a Call, not a CallResult) with the request's correlation  *)
(* id.                                                                      *)
C2_UnregisteredReplyIsCallError ==
    (IsDispatch("Call") /\ last.frame.action \notin Registered)
        => \A i \in OutPubs :
              /\ last.pubs[i].frame.type = "CallError"
              /\ last.pubs[i].frame.id = last.frame.id

(* C3: for every registered action and every device, dispatching a Call     *)
(* with that action publishes a reply frame whose correlation id is the     *)
(* Call's.                                                                  *)
C3_RegisteredCallRepliedWithSameId ==
    (IsDispatch("Call") /\ last.frame.action \in Registered)
        => \E i \in OutPubs :
              /\ last.pubs[i].cp = last.cp
              /\ last.pubs[i].frame.id = last.frame.id

(* C4: dispatching a CallResult or a CallError never publishes a frame to   *)
(* a device's outbound channel, whether or not its correlation id matches   *)
(* a command that was issued.                                               *)
C4_ResponsesAreNeverAnswered ==
    (IsDispatch("CallResult") \/ IsDispatch("CallError")) => OutPubs = {}

C4_Witness ==
    /\ IsDispatch("CallResult")
    /\ IssuedTo(last.cp, last.frame.id)
    /\ ShadowWrites(last) # {}

(* C5: a CallResult whose correlation id was never recorded by a command    *)
(* issuance is dropped: its dispatch publishes no reply frame and writes    *)
(* nothing to the state store.                                              *)
C5_StaleResultIsDropped ==
    (IsDispatch("CallResult") /\ ~IssuedTo(last.cp, last.frame.id)
                              /\ <<last.cp, last.frame.id>> \notin ledger)
        => last.pubs = <<>>

(* C6: when the same CallResult (same device, same correlation id) is       *)
(* delivered again, the state store is not written a second time.           *)
C6_DuplicateResultWritesOnce ==
    [][(/\ IsDispatch("CallResult")
        /\ ShadowWrites(last) # {}
        /\ idx' = idx + 1
        /\ last'.op = "record"
        /\ last'.cp = last.cp
        /\ last'.frame = last.frame)
            => ShadowWrites(last') = {}]_vars

(* C7: every RequestStartTransaction / RequestStopTransaction Call the      *)
(* command lambdas hand to the publisher has a pending-command entry        *)
(* recorded under its correlation id for the target device.                 *)
C7_CommandIsRecordedWhenPublished ==
    (last.op \in {"start", "stop"})
        => \A i \in OutPubs :
              <<last.pubs[i].cp, last.pubs[i].frame.id>> \in ledger

(* C8: after a start command was issued to a device and a CallResult with   *)
(* that command's correlation id and status Accepted is dispatched for it,  *)
(* the device's stored state shows an active (current) transaction, and no  *)
(* reply frame was published for the CallResult.                            *)
C8_AcceptedStartShowsTransaction ==
    (/\ IsDispatch("CallResult")
     /\ last.frame.payload.status = "Accepted"
     /\ [cp |-> last.cp, id |-> last.frame.id,
         action |-> "RequestStartTransaction"] \in commands)
        => /\ \/ shadow[last.cp].ctStatus = "Started"
              \/ shadow[last.cp].atTransactionId # Absent
           /\ OutPubs = {}

(* C9: if the handler selected for an inbound Call raises, the device still *)
(* gets a CallError reply with the Call's correlation id.                   *)
C9_HandlerFailureYieldsCallError ==
    (IsDispatch("Call") /\ last.raised = "handler")
        => \E i \in OutPubs :
              /\ last.pubs[i].cp = last.cp
              /\ last.pubs[i].frame.type = "CallError"
              /\ last.pubs[i].frame.id = last.frame.id

(* C10: a failure while processing one record (decode error, handler        *)
(* exception, publish failure) never stops the batch: the loop is never     *)
(* left early, and the event returns only after every record was handed to  *)
(* handle_record.                                                           *)
C10_BatchAttemptsEveryRecord ==
    /\ phase # "aborted"
    /\ idx <= batchN
    /\ failures <= idx
    /\ phase = "returned" => idx = batchN
    /\ phase = "running" => idx < batchN

C10_Witness ==
    /\ phase = "returned"
    /\ batchN = MaxBatch
    /\ idx = batchN
    /\ failures = batchN

(* The registered actions whose handler publishes a shadow update *)
StateWriting ==
    {"BootNotification", "TransactionEvent", "RequestStartTransaction",
     "RequestStopTransaction"}

IsCallOf(action) == IsDispatch("Call") /\ last.frame.action = action

(* C11: for every registered action whose handler writes the device's       *)
(* state (BootNotification, TransactionEvent, RequestStartTransaction,      *)
(* RequestStopTransaction), a failed state write does not block the reply:  *)
(* the reply frame for the Call is still published to the device.           *)
C11_StateWriteFailureDoesNotBlockReply ==
    (/\ IsDispatch("Call")
     /\ last.frame.action \in StateWriting
     /\ \E i \in ShadowPubs : ~last.pubs[i].ok)
        => \E i \in OutPubs :
              /\ last.pubs[i].cp = last.cp
              /\ last.pubs[i].frame.id = last.frame.id

(* C12: a TransactionEvent Call is always answered with an empty-object     *)
(* CallResult, for every eventType (Started, Updated, Ended, absent or      *)
(* unknown) and whether the state write succeeds or fails.                  *)
C12_TransactionEventAlwaysAnswered ==
    IsCallOf("TransactionEvent")
        => \E i \in OutPubs :
              /\ last.pubs[i].cp = last.cp
              /\ last.pubs[i].frame = CallResult(last.frame.id, EmptyDict)

(* C13: a BootNotification Call from a device sends the reported boot       *)
(* payload as an update of that device's state document and is answered     *)
(* with a CallResult whose status is Accepted and whose interval is 10,     *)
(* for every payload and every prior state.                                 *)
C13_BootIsMergedAndAccepted ==
    IsCallOf("BootNotification")
        => /\ \E i \in ShadowPubs :
                /\ last.pubs[i].cp = last.cp
                /\ last.pubs[i].doc.reason = last.frame.payload.reason
                /\ last.pubs[i].ok => shadow[last.cp].reason = last.frame.payload.reason
           /\ \E i \in OutPubs :
                /\ last.pubs[i].cp = last.cp
                /\ last.pubs[i].frame.type = "CallResult"
                /\ last.pubs[i].frame.id = last.frame.id
                /\ last.pubs[i].frame.payload.status = "Accepted"
                /\ last.pubs[i].frame.payload.interval = Interval

(* C14: the state update a TransactionEvent sends depends on its eventType: *)
(* Started carries an active-transaction record; Ended sets the             *)
(* active-transaction record to null and carries a last-completed record;   *)
(* Updated, any other and an absent eventType carry only the last-event     *)
(* summary and leave the active and last-completed fields out.  Nothing     *)
(* else of the document is ever part of the update.                         *)
C14_TransactionMergeByEventType ==
    IsCallOf("TransactionEvent")
        => \A i \in ShadowPubs :
            LET doc == last.pubs[i].doc
                data == last.frame.payload
                transaction_id == Get(data.transactionInfo)
            IN  /\ last.pubs[i].cp = last.cp
                /\ doc.lteEventType = Get(data.eventType)
                /\ doc.lteTransactionId = transaction_id
                /\ data.eventType = "Started" =>
                        /\ doc.atTransactionId = transaction_id
                        /\ doc.atEvseId = Get(data.evse)
                        /\ doc.lctTransactionId = Absent
                /\ data.eventType = "Ended" =>
                        /\ doc.atTransactionId = Null
                        /\ doc.atEvseId = Null
                        /\ doc.lctTransactionId = transaction_id
                /\ data.eventType \notin {"Started", "Ended"} =>
                        /\ doc.atTransactionId = Absent
                        /\ doc.atEvseId = Absent
                        /\ doc.lctTransactionId = Absent
                /\ \A f \in {"reason", "lcrMessageId", "lcrStatus",
                             "ctTransactionId", "ctStatus"} : doc[f] = Absent

(* an Ended event that follows a Started one, written to the store *)
C14_Witness ==
    /\ IsCallOf("TransactionEvent")
    /\ last.frame.payload.eventType = "Ended"
    /\ \E i \in ShadowPubs : last.pubs[i].ok /\ last.pubs[i].doc.atTransactionId = Null
    /\ shadow[last.cp].lteEventType = "Ended"
    /\ shadow[last.cp].lctTransactionId = "t1"
    /\ idx = 2

IsCommand == last.op \in {"start", "stop"}

(* The required field(s) of the last command request are missing *)
MissingField ==
    \/ last.body.chargePointId = Absent
    \/ last.op = "stop" /\ last.body.transactionId = Absent

(* C15: a start request without chargePointId, or a stop request without    *)
(* chargePointId or transactionId, is answered 400 with an error body (no   *)
(* messageId) and publishes nothing; a request whose publish fails is       *)
(* answered 500 with an error body; every other request is answered 200.    *)
C15_CommandOutcome ==
    IsCommand =>
        IF MissingField
        THEN last.status = 400 /\ last.messageId = Absent /\ last.pubs = <<>>
        ELSE /\ Len(last.pubs) = 1
             /\ IF last.pubs[1].ok
                THEN last.status = 200 /\ last.messageId # Absent
                ELSE last.status = 500 /\ last.messageId = Absent

(* a stop request that names the device but no transaction *)
C15_Witness ==
    /\ last.op = "stop"
    /\ last.body.chargePointId = "CP1"
    /\ last.body.transactionId = Absent
    /\ last.status = 400
    /\ last.pubs = <<>>

(* C16: a command request for device D answered 200 has published exactly   *)
(* one frame: a Call, on "D/out", whose action is RequestStartTransaction   *)
(* for a start and RequestStopTransaction for a stop, and whose correlation *)
(* id is the messageId of the response.                                     *)
C16_CommandPublishesOneCall ==
    (IsCommand /\ last.status = 200) =>
        /\ Len(last.pubs) = 1
        /\ last.pubs[1].topic = "out"
        /\ last.pubs[1].cp = last.body.chargePointId
        /\ last.pubs[1].cp \in Devices
        /\ last.pubs[1].frame.type = "Call"
        /\ last.pubs[1].frame.action = IF last.op = "start"
                                       THEN "RequestStartTransaction"
                                       ELSE "RequestStopTransaction"
        /\ last.pubs[1].frame.id = last.messageId
        /\ IssuedTo(last.body.chargePointId, last.messageId)

C16_Witness ==
    /\ last.op = "start"
    /\ last.status = 200
    /\ last.body.chargePointId = "CP2"
    /\ last.messageId = "m2"
    /\ Len(last.pubs) = 1

(* C17: the RequestStartTransaction and RequestStopTransaction handlers     *)
(* never produce a reply frame: whenever the dispatcher invokes one, the    *)
(* current-transaction update is its only effect and nothing is published   *)
(* to the device's outbound channel.                                        *)
C17_RequestHandlersPublishNothing ==
    (IsCallOf("RequestStartTransaction") \/ IsCallOf("RequestStopTransaction"))
        => OutPubs = {}

(* C18: one dispatch of one inbound Call publishes at most one frame to the *)
(* device's outbound channel and sends at most one state update, for every  *)
(* action and payload.                                                      *)
C18_AtMostOneReplyAndOneWrite ==
    IsDispatch("Call") =>
        /\ Cardinality(OutPubs) <= 1
        /\ Cardinality(ShadowPubs) <= 1
        /\ \A i \in DOMAIN last.pubs : last.pubs[i].cp = last.cp

C18_Witness ==
    /\ IsCallOf("TransactionEvent")
    /\ Cardinality(OutPubs) = 1
    /\ Cardinality(ShadowPubs) = 1
    /\ Len(last.pubs) = 2

(* The reply frames a handle_record call published for its own Call *)
Replies(l) ==
    {i \in DOMAIN l.pubs : /\ l.pubs[i].topic = "out"
                           /\ l.pubs[i].cp = l.cp
                           /\ l.pubs[i].frame.id = l.frame.id}

(* The kind of a frame and which keys its payload has *)
Shape(frame) ==
    [type |-> frame.type,
     keys |-> {f \in DOMAIN frame.payload \ {"shape", "interval"} :
                    frame.payload[f] # Absent},
     interval |-> frame.payload.interval # 0]

(* C19: a Call delivered twice in a row is answered twice, once per         *)
(* delivery, both replies carrying the Call's correlation id and the same   *)
(* payload shape, for every action.                                         *)
C19_ReplayedCallIsAnsweredTwice ==
    [][(/\ last.op = "record" /\ last.frame.type = "Call"
        /\ idx' = idx + 1
        /\ last'.op = "record" /\ last'.frame = last.frame /\ last'.cp = last.cp)
       => /\ Cardinality(Replies(last)) = 1
          /\ Cardinality(Replies(last')) = 1
          /\ \A i \in Replies(last), j \in Replies(last') :
                Shape(last.pubs[i].frame) = Shape(last'.pubs[j].frame)]_vars

(* C20: a record that cannot be decoded, or that lacks chargePointId or     *)
(* message, is logged and dropped: handle_record publishes no frame and     *)
(* sends no state update for it.                                            *)
C20_UndecodableRecordIsDropped ==
    (last.op = "record" /\ (last.cp = Absent \/ last.frame = NoFrame))
        => /\ last.pubs = <<>>
           /\ last.raised = "decode"

(* an undecodable record of a device whose state document is not empty *)
C20_Witness ==
    /\ last.op = "record"
    /\ last.cp = "CP1"
    /\ last.frame = NoFrame
    /\ last.raised = "decode"
    /\ failures >= 1
    /\ shadow["CP1"] # NoDoc

(* C21: every frame published while dispatching a record of device D goes   *)
(* to "D/out" and every state update it sends targets D's document; the     *)
(* dispatch changes no other device's stored state and delivers nothing to  *)
(* another device's channel.                                                *)
C21_DeviceIsolation ==
    [][(idx' = idx + 1 /\ last'.op = "record")
       => /\ \A i \in DOMAIN last'.pubs :
                /\ last'.pubs[i].cp = last'.cp
                /\ last'.pubs[i].topic \in {"out", "shadow"}
          /\ \A d \in Devices \ {last'.cp} : shadow'[d] = shadow[d]
          /\ commands' = commands]_vars

(* a dispatch for CP2 that wrote state and replied while CP1 has state too *)
C21_Witness ==
    /\ IsDispatch("Call")
    /\ last.cp = "CP2"
    /\ \E i \in ShadowPubs : last.pubs[i].ok
    /\ OutPubs # {}
    /\ shadow["CP1"] # NoDoc
    /\ shadow["CP1"] # shadow["CP2"]

(* The same Call of the same device is handed to handle_record again, and   *)
(* the state update of both deliveries is accepted by the store             *)
ReplayedAndWritten ==
    /\ last.op = "record" /\ last.frame.type = "Call"
    /\ idx' = idx + 1
    /\ last'.op = "record" /\ last'.frame = last.frame /\ last'.cp = last.cp
    /\ ShadowWrites(last) # {} /\ ShadowWrites(last') # {}

(* C22: handlers that merge state tolerate a duplicate merge: for every     *)
(* Call, the device's stored state after the Call was dispatched twice is   *)
(* the state after it was dispatched once (the model keeps no timestamps).  *)
C22_DuplicateMergeKeepsState ==
    [][ReplayedAndWritten => shadow'[last.cp] = shadow[last.cp]]_vars

ActiveTransaction(cp) ==
    shadow[cp].atTransactionId # Absent \/ shadow[cp].atEvseId # Absent

C25_StateUpdateBeforeReply ==
    (IsDispatch("Call") /\ last.frame.action \in StateWriting) =>
        \A i \in OutPubs : \E j \in ShadowPubs : j < i

(* a boot Call whose document was written and whose reply then went out *)
C25_Witness ==
    /\ IsCallOf("BootNotification")
    /\ Len(last.pubs) = 2
    /\ last.pubs[1].topic = "shadow" /\ last.pubs[1].ok
    /\ last.pubs[2].topic = "out" /\ last.pubs[2].ok
    /\ last.raised = "none"

(* C26: for every event with a Records list, lambda_handler returns         *)
(* statusCode 200 once every record was attempted, even when some or all    *)
(* of them failed to decode, to be handled or to have their reply           *)
(* published; no failed record is reported back to the queue and no         *)
(* exception leaves the entry point.                                        *)
C26_BatchAlwaysReturns200 ==
    /\ phase = "returned" =>
          /\ result.statusCode = 200
          /\ result.batchItemFailures = 0
          /\ idx = batchN
    /\ phase # "returned" => result = NoResult
    /\ phase # "aborted"

(* an event whose records all failed, one of them on its reply publish *)
C26_Witness ==
    /\ phase = "returned"
    /\ batchN = MaxBatch
    /\ failures = batchN
    /\ last.raised = "publish"
    /\ result.statusCode = 200

====
